---- MODULE Spec2Model ----
(***************************************************************************)
(* Weather glasses app: the per-session command interpreter of             *)
(* src/src/index.ts with the intent parser of the utils module             *)
(* (src/unnamed/part_000).                                                 *)
(*                                                                         *)
(* Text is a sequence of UTF-16 code units, each written as a one-element  *)
(* string ("a", " ", "'") or, for the code units of the indicator glyphs,  *)
(* as its code point ("U+F8FF").                                           *)
(***************************************************************************)
EXTENDS Integers, Sequences, FiniteSets, TLC

VARIABLES
    sessionStates,  \* keys of the sessionStates map: the registered session ids
    state,          \* session id -> the SessionState object its handlers captured
    subscribed,     \* session ids whose location stream is subscribed
    display,        \* session id -> the text last handed to showTextWall
    pending,        \* awaited provider calls, in the order they were issued
    last,           \* the step just taken: the event and its inputs
    list,           \* data.list: the readings of a forecast payload of the provider
    forecastData,   \* what transformForecastData returned for them (if called)
    input,          \* the text handed to parseLocationFromText
    parsed          \* what parseLocationFromText returned for it (if called)

vars ==
    << sessionStates, state, subscribed, display, pending, last, list,
       forecastData, input, parsed >>

--------------------------------------------------------------------------
(* Bounds of the explored inputs *)

\* at most this many provider calls are awaited at once
MaxPending == 2

Sessions == {"s1"}

\* an optional value (undefined, null): the empty sequence, or << value >>
Absent == << >>
Some(x) == << x >>
IsSome(o) == o # << >>

--------------------------------------------------------------------------
(* Text helpers: JavaScript string operations on code-unit sequences *)

LowerLetters ==
    << "a","b","c","d","e","f","g","h","i","j","k","l","m",
       "n","o","p","q","r","s","t","u","v","w","x","y","z" >>

UpperLetters ==
    << "A","B","C","D","E","F","G","H","I","J","K","L","M",
       "N","O","P","Q","R","S","T","U","V","W","X","Y","Z" >>

Range(f) == { f[i] : i \in DOMAIN f }

IndexOf(seq, c) == CHOOSE i \in DOMAIN seq : seq[i] = c

\* String.prototype.toLowerCase, one code unit
toLowerCaseUnit(c) ==
    IF c \in Range(UpperLetters) THEN LowerLetters[IndexOf(UpperLetters, c)] ELSE c

\* String.prototype.toUpperCase, one code unit
toUpperCaseUnit(c) ==
    IF c \in Range(LowerLetters) THEN UpperLetters[IndexOf(LowerLetters, c)] ELSE c

toLowerCase(s) == [ i \in DOMAIN s |-> toLowerCaseUnit(s[i]) ]

\* the regular expression class \s, over the code units of the model
IsSpace(c) == c = " "

\* the regular expression class [a-zA-Z\s]
IsLocationUnit(c) ==
    c \in Range(LowerLetters) \/ c \in Range(UpperLetters) \/ IsSpace(c)

Slice(s, from, to) == [ i \in 1..(to - from + 1) |-> s[from + i - 1] ]

Min(S) == CHOOSE x \in S : \A y \in S : x <= y
Max(S) == CHOOSE x \in S : \A y \in S : x >= y

\* String.prototype.trim
trim(s) ==
    LET keep == { i \in DOMAIN s : ~IsSpace(s[i]) }
    IN  IF keep = {} THEN << >> ELSE Slice(s, Min(keep), Max(keep))

\* the literal lit occurs in s at index i (1-based)
MatchAt(s, i, lit) ==
    /\ i >= 1
    /\ i + Len(lit) - 1 <= Len(s)
    /\ \A k \in 1..Len(lit) : s[i + k - 1] = lit[k]

\* String.prototype.includes
includes(s, lit) == \E i \in 1..(Len(s) + 1) : MatchAt(s, i, lit)

\* Array.prototype.join(' ') of a sequence of words
JoinWords(ws) ==
    LET F[n \in 0..Len(ws)] ==
            IF n = 0 THEN << >>
            ELSE IF n = 1 THEN ws[1]
            ELSE F[n - 1] \o << " " >> \o ws[n]
    IN  F[Len(ws)]

\* utils: capitalizeFirst = split(' ').map(first upper, rest lower).join(' ');
\* a code unit starts a word exactly when it is first or follows a ' '
capitalizeFirst(str) ==
    [ i \in DOMAIN str |->
        IF i = 1 \/ str[i - 1] = " "
        THEN toUpperCaseUnit(str[i])
        ELSE toLowerCaseUnit(str[i]) ]

--------------------------------------------------------------------------
(* Intent parser: parseLocationFromText *)

W_weather == << "w","e","a","t","h","e","r" >>
W_in == << "i","n" >>
W_for == << "f","o","r" >>
W_what == << "w","h","a","t" >>
W_how == << "h","o","w" >>

\* lengths k of a capture ([a-zA-Z\s]+?) starting at j that (?:\s|$) can follow
CaptureLengths(s, j) ==
    { k \in 1..(Len(s) - j + 1) :
        /\ \A m \in j..(j + k - 1) : IsLocationUnit(s[m])
        /\ \/ j + k = Len(s) + 1
           \/ IsSpace(s[j + k]) }

\* the lazy capture at j: the shortest one
CaptureAt(s, j) == Slice(s, j, j + Min(CaptureLengths(s, j)) - 1)

\* /<lit>([a-zA-Z\s]+?)(?:\s|$)/ : leftmost match, group 1 (Absent: no match)
MatchLiteralThenLocation(s, lit) ==
    LET starts == { i \in 1..Len(s) :
                      MatchAt(s, i, lit) /\ CaptureLengths(s, i + Len(lit)) # {} }
    IN  IF starts = {} THEN Absent
        ELSE Some(CaptureAt(s, Min(starts) + Len(lit)))

\* \s+weather matches at j
SpacesThenWeatherAt(s, j) ==
    \E m \in 1..(Len(s) - j + 1) :
        /\ \A n \in j..(j + m - 1) : IsSpace(s[n])
        /\ MatchAt(s, j + m, W_weather)

\* /([a-zA-Z\s]+?)\s+weather/ : leftmost match, shortest capture, group 1
MatchLocationThenWeather(s) ==
    LET lens(i) == { k \in 1..(Len(s) - i + 1) :
                       /\ \A m \in i..(i + k - 1) : IsLocationUnit(s[m])
                       /\ SpacesThenWeatherAt(s, i + k) }
        starts == { i \in 1..Len(s) : lens(i) # {} }
    IN  IF starts = {} THEN Absent
        ELSE LET i == Min(starts)
             IN  Some(Slice(s, i, i + Min(lens(i)) - 1))

\* /<head>.*weather.*in ([a-zA-Z\s]+?)(?:\s|$)/ : leftmost head; each .* is
\* greedy, so the last "weather" and then the last "in " that let the rest
\* match are taken; the capture is lazy
MatchQuestion(s, head) ==
    LET inAfter(p) == { q \in (p + Len(W_weather))..Len(s) :
                          /\ MatchAt(s, q, W_in \o << " " >>)
                          /\ CaptureLengths(s, q + 3) # {} }
        weatherAfter(i) == { p \in (i + Len(head))..Len(s) :
                               MatchAt(s, p, W_weather) /\ inAfter(p) # {} }
        starts == { i \in 1..Len(s) :
                      MatchAt(s, i, head) /\ weatherAfter(i) # {} }
    IN  IF starts = {} THEN Absent
        ELSE LET p == Max(weatherAfter(Min(starts)))
                 q == Max(inAfter(p))
             IN  Some(CaptureAt(s, q + 3))

stopWords ==
    { << "t","h","e" >>, << "t","o","d","a","y" >>, << "n","o","w" >>,
      << "l","i","k","e" >>, << "t","h","e","r","e" >>, << "h","e","r","e" >> }

\* group 1 of each pattern, in the order of the patterns array
patterns(lowerText) ==
    << MatchLiteralThenLocation(lowerText, W_weather \o << " " >> \o W_in \o << " " >>),
       MatchLiteralThenLocation(lowerText, W_weather \o << " " >> \o W_for \o << " " >>),
       MatchLocationThenWeather(lowerText),
       MatchQuestion(lowerText, W_what),
       MatchQuestion(lowerText, W_how) >>

\* parseLocationFromText with the stop-word test left out
parseLocationFromText_KeepsStopWords(text) ==
    LET m == patterns(toLowerCase(text))
        accepted == { n \in DOMAIN m : IsSome(m[n]) }
    IN  IF accepted = {} THEN Absent
        ELSE Some(capitalizeFirst(trim(m[Min(accepted)][1])))

\* parseLocationFromText: the first pattern whose trimmed capture is no stop
\* word gives the location, title-cased; Absent stands for null
parseLocationFromText(text) ==
    LET m == patterns(toLowerCase(text))
        accepted == { n \in DOMAIN m : IsSome(m[n]) /\ trim(m[n][1]) \notin stopWords }
    IN  IF accepted = {} THEN Absent
        ELSE Some(capitalizeFirst(trim(m[Min(accepted)][1])))

--------------------------------------------------------------------------
(* Session state: interface SessionState and the location record *)

\* getLocationTypeIndicator: the glyph's code units as the source file has them
getLocationTypeIndicator(hasCoordinates) ==
    IF hasCoordinates
    THEN << "U+F8FF", "U+00FC", "U+00E9", "U+00D8" >>
    ELSE << "U+F8FF", "U+00FC", "U+00E8", "U+00F4", "U+00D4", "U+220F", "U+00E8" >>

\* the code units of the class in /^[...]\s*/ (showCurrentWeather, showForecast)
IndicatorClass ==
    { "U+F8FF", "U+00FC", "U+00E9", "U+00D8", "U+00E8", "U+00F4", "U+00D4", "U+220F" }

\* city.replace(/^[...]\s*/, ''): one leading code unit of the class and the
\* white space after it are removed
StripIndicator(city) ==
    IF city # << >> /\ city[1] \in IndicatorClass
    THEN LET rest == { i \in 2..Len(city) : ~IsSpace(city[i]) }
         IN  IF rest = {} THEN << >> ELSE Slice(city, Min(rest), Len(city))
    ELSE city

W_Current == << "C","u","r","r","e","n","t" >>
W_Location == << "L","o","c","a","t","i","o","n" >>

\* mutant: the indicator and the location are joined without the space
VoiceLocation_NoSeparator(location) ==
    [ city |-> getLocationTypeIndicator(FALSE) \o location,
      lat |-> Absent, lng |-> Absent ]

\* the record a final transcript with a location stores (handleVoiceCommand)
VoiceLocation(location) ==
    [ city |-> getLocationTypeIndicator(FALSE) \o << " " >> \o location,
      lat |-> Absent, lng |-> Absent ]

\* the record the first location update stores (onSession, subscribeToStream)
StreamLocation(lat, lng) ==
    [ city |-> getLocationTypeIndicator(TRUE) \o << " " >> \o W_Current
                  \o << " " >> \o W_Location,
      lat |-> Some(lat), lng |-> Some(lng) ]

\* const state: SessionState = { showingForecast: false }
InitialState ==
    [ lastLocation |-> Absent, showingForecast |-> FALSE,
      currentWeather |-> Absent, forecast |-> Absent ]

\* JavaScript truthiness of an optional number: set and not 0
Truthy(n) == IsSome(n) /\ n[1] # 0

\* state.lastLocation.lat && state.lastLocation.lng
HasCoordinates(loc) == Truthy(loc.lat) /\ Truthy(loc.lng)

\* the provider call the location selects, and its arguments
QueryFor(loc) ==
    IF HasCoordinates(loc)
    THEN [ by |-> "coords", city |-> << >>, lat |-> loc.lat, lng |-> loc.lng ]
    ELSE [ by |-> "city", city |-> StripIndicator(loc.city), lat |-> Absent, lng |-> Absent ]

\* the coordinates handed to the formatter after a successful fetch
CoordinatesOf(loc) ==
    IF HasCoordinates(loc) THEN Some(<< loc.lat[1], loc.lng[1] >>) ELSE Absent

--------------------------------------------------------------------------
(* Inputs of the explored runs *)

\* "Weather in Tokyo", as the transport delivers it
TokyoTranscript ==
    JoinWords(<< << "W","e","a","t","h","e","r" >>, W_in, << "T","o","k","y","o" >> >>)

\* "What's the weather like", the README's command for the weather at the
\* current location
WeatherLikeTranscript ==
    JoinWords(<< << "W","h","a","t","'","s" >>, << "t","h","e" >>, W_weather,
                 << "l","i","k","e" >> >>)

W_forecast == << "f","o","r","e","c","a","s","t" >>
W_current == << "c","u","r","r","e","n","t" >>
W_now == << "n","o","w" >>
W_location == << "l","o","c","a","t","i","o","n" >>
W_where == << "w","h","e","r","e" >>
W_help == << "h","e","l","p" >>
W_show == << "s","h","o","w" >>

\* the transcripts the transport delivers
Transcripts ==
    { TokyoTranscript,
      W_weather,
      JoinWords(<< W_show, W_forecast >>),
      JoinWords(<< W_weather, W_forecast >>),
      W_current,
      W_now,
      JoinWords(<< W_where, << "a","m" >>, << "i" >> >>),
      W_help,
      JoinWords(<< W_weather, W_help >>) }

Buttons == { "forward", "select", "back", "left" }
ButtonActions == { "press", "release" }

\* the coordinates the location stream delivers
Latitudes == { 0, 35 }
Longitudes == { 139 }

\* what the provider answers to a request
Responses == { "200", "404", "500" }

--------------------------------------------------------------------------
(* Handlers up to their first await: the state they leave, the texts they
   hand to showTextWall, and the provider call they issue (if any) *)

Effect(st, shown, fetch) == [ st |-> st, shown |-> shown, fetch |-> fetch ]

\* showCurrentWeather, lines 166-183: up to the awaited provider call
showCurrentWeather(st) ==
    IF ~IsSome(st.lastLocation) THEN Effect(st, << >>, Absent)
    ELSE Effect(st, << "gettingWeather" >>,
                Some([ kind |-> "current", query |-> QueryFor(st.lastLocation[1]) ]))

\* showForecast, lines 207-224: up to the awaited provider call
showForecast(st) ==
    IF ~IsSome(st.lastLocation) THEN Effect(st, << >>, Absent)
    ELSE Effect(st, << "gettingForecast" >>,
                Some([ kind |-> "forecast", query |-> QueryFor(st.lastLocation[1]) ]))

\* showLocationInfo: one text, no state change
showLocationInfo(st) ==
    IF ~IsSome(st.lastLocation) THEN Effect(st, << >>, Absent)
    ELSE Effect(st,
                << IF HasCoordinates(st.lastLocation[1])
                   THEN "locationInfoWithCoordinates" ELSE "locationInfo" >>,
                Absent)

\* if (location): a non-null, non-empty string
IsLocation(location) == IsSome(location) /\ location[1] # << >>

\* const text = data.text.toLowerCase().trim(), for each transcript
CommandText ==
    [ t \in Transcripts \cup { WeatherLikeTranscript } |-> trim(toLowerCase(t)) ]

\* parseLocationFromText(text) for each command text (evaluated once)
ParsedLocation == [ text \in Range(CommandText) |-> parseLocationFromText(text) ]

\* text.includes(word) for each command text (evaluated once)
Mentions ==
    [ text \in Range(CommandText) |->
        { w \in { W_weather, W_forecast, W_current, W_now, W_location, W_where, W_help } :
            includes(text, w) } ]

\* mutant: the 'forecast' branch calls showForecast without looking at
\* lastLocation
handleVoiceCommand_ForecastUnchecked(st, text) ==
    IF W_weather \in Mentions[text] THEN
        LET location == ParsedLocation[text]
        IN  IF IsLocation(location)
            THEN showCurrentWeather(
                     [ st EXCEPT !.lastLocation = Some(VoiceLocation(location[1])) ])
            ELSE IF IsSome(st.lastLocation) THEN showCurrentWeather(st)
            ELSE Effect(st, << "promptWeatherLocation" >>, Absent)
    ELSE IF W_forecast \in Mentions[text] THEN showForecast(st)
    ELSE IF W_current \in Mentions[text] \/ W_now \in Mentions[text] THEN
        IF IsSome(st.lastLocation) THEN showCurrentWeather(st)
        ELSE Effect(st, << "promptCurrentLocation" >>, Absent)
    ELSE IF W_location \in Mentions[text] \/ W_where \in Mentions[text] THEN
        IF IsSome(st.lastLocation) THEN showLocationInfo(st)
        ELSE Effect(st, << "noLocationSet" >>, Absent)
    ELSE IF W_help \in Mentions[text] THEN Effect(st, << "help" >>, Absent)
    ELSE Effect(st, << >>, Absent)

\* handleVoiceCommand
handleVoiceCommand(st, text) ==
    IF W_weather \in Mentions[text] THEN
        LET location == ParsedLocation[text]
        IN  IF IsLocation(location)
            THEN showCurrentWeather(
                     [ st EXCEPT !.lastLocation = Some(VoiceLocation(location[1])) ])
            ELSE IF IsSome(st.lastLocation) THEN showCurrentWeather(st)
            ELSE Effect(st, << "promptWeatherLocation" >>, Absent)
    ELSE IF W_forecast \in Mentions[text] THEN
        IF IsSome(st.lastLocation) THEN showForecast(st)
        ELSE Effect(st, << "promptForecastLocation" >>, Absent)
    ELSE IF W_current \in Mentions[text] \/ W_now \in Mentions[text] THEN
        IF IsSome(st.lastLocation) THEN showCurrentWeather(st)
        ELSE Effect(st, << "promptCurrentLocation" >>, Absent)
    ELSE IF W_location \in Mentions[text] \/ W_where \in Mentions[text] THEN
        IF IsSome(st.lastLocation) THEN showLocationInfo(st)
        ELSE Effect(st, << "noLocationSet" >>, Absent)
    ELSE IF W_help \in Mentions[text] THEN Effect(st, << "help" >>, Absent)
    ELSE Effect(st, << >>, Absent)

\* mutant: 'back' toggles the view flag instead of clearing it
handleButtonPress_BackToggles(st, button) ==
    IF button \in { "forward", "select" } THEN
        IF st.showingForecast THEN showCurrentWeather(st)
        ELSE IF IsSome(st.currentWeather) THEN showForecast(st)
        ELSE Effect(st, << >>, Absent)
    ELSE IF button = "back" THEN
        Effect([ st EXCEPT !.showingForecast = ~st.showingForecast ],
               << "welcomeBack" >>, Absent)
    ELSE Effect(st, << >>, Absent)

\* mutant: 'forward'/'select' outside the forecast view asks for the forecast
\* whether or not a current reading is cached
handleButtonPress_ForwardIgnoresCache(st, button) ==
    IF button \in { "forward", "select" } THEN
        IF st.showingForecast THEN showCurrentWeather(st)
        ELSE showForecast(st)
    ELSE IF button = "back" THEN
        Effect([ st EXCEPT !.showingForecast = FALSE ], << "welcomeBack" >>, Absent)
    ELSE Effect(st, << >>, Absent)

\* mutant: 'forward'/'select' shows the cached forecast when there is one
handleButtonPress_ShowsCached(st, button) ==
    IF button \in { "forward", "select" } THEN
        IF st.showingForecast THEN showCurrentWeather(st)
        ELSE IF IsSome(st.currentWeather) THEN
            IF IsSome(st.forecast)
            THEN Effect([ st EXCEPT !.showingForecast = TRUE ],
                        << IF HasCoordinates(st.lastLocation[1])
                           THEN "forecastWithCoordinates" ELSE "forecast" >>,
                        Absent)
            ELSE showForecast(st)
        ELSE Effect(st, << >>, Absent)
    ELSE IF button = "back" THEN
        Effect([ st EXCEPT !.showingForecast = FALSE ], << "welcomeBack" >>, Absent)
    ELSE Effect(st, << >>, Absent)

\* handleButtonPress
handleButtonPress(st, button) ==
    IF button \in { "forward", "select" } THEN
        IF st.showingForecast THEN showCurrentWeather(st)
        ELSE IF IsSome(st.currentWeather) THEN showForecast(st)
        ELSE Effect(st, << >>, Absent)
    ELSE IF button = "back" THEN
        Effect([ st EXCEPT !.showingForecast = FALSE ], << "welcomeBack" >>, Absent)
    ELSE Effect(st, << >>, Absent)

--------------------------------------------------------------------------
(* WeatherService: what a call returns or throws for a provider response.
   A reading is identified by the request that produced it. *)

\* an Error's message: the template and the city spliced into it (if any)
Message(template, city) == [ template |-> template, city |-> city ]

Returned(data) == [ ok |-> TRUE, data |-> Some(data), error |-> Message("", << >>) ]
Thrown(message) == [ ok |-> FALSE, data |-> Absent, error |-> message ]

getCurrentWeather(city, response) ==
    IF response = "200"
    THEN Returned([ kind |-> "current",
                    for |-> [ by |-> "city", city |-> city, lat |-> Absent, lng |-> Absent ] ])
    ELSE IF response = "404" THEN Thrown(Message("City \"${city}\" not found", city))
    ELSE Thrown(Message("Failed to fetch weather data", << >>))

getCurrentWeatherByCoords(lat, lng, response) ==
    IF response = "200"
    THEN Returned([ kind |-> "current",
                    for |-> [ by |-> "coords", city |-> << >>, lat |-> lat, lng |-> lng ] ])
    ELSE Thrown(Message("Failed to fetch weather data by coordinates", << >>))

getForecast(city, response) ==
    IF response = "200"
    THEN Returned([ kind |-> "forecast",
                    for |-> [ by |-> "city", city |-> city, lat |-> Absent, lng |-> Absent ] ])
    ELSE IF response = "404" THEN Thrown(Message("City \"${city}\" not found", city))
    ELSE Thrown(Message("Failed to fetch forecast data", << >>))

getForecastByCoords(lat, lng, response) ==
    IF response = "200"
    THEN Returned([ kind |-> "forecast",
                    for |-> [ by |-> "coords", city |-> << >>, lat |-> lat, lng |-> lng ] ])
    ELSE Thrown(Message("Failed to fetch forecast data by coordinates", << >>))

\* the call a request stands for, answered with response
ServiceCall(fetch, response) ==
    IF fetch.kind = "current"
    THEN IF fetch.query.by = "coords"
         THEN getCurrentWeatherByCoords(fetch.query.lat, fetch.query.lng, response)
         ELSE getCurrentWeather(fetch.query.city, response)
    ELSE IF fetch.query.by = "coords"
         THEN getForecastByCoords(fetch.query.lat, fetch.query.lng, response)
         ELSE getForecast(fetch.query.city, response)

formatCurrentWeather(weather, coordinates) ==
    IF IsSome(coordinates) THEN "currentWeatherWithCoordinates" ELSE "currentWeather"

formatForecast(forecast, location, coordinates) ==
    IF IsSome(coordinates) THEN "forecastWithCoordinates" ELSE "forecast"

\* mutant: a reading for another location than the session's is dropped
showCurrentWeatherResumed_DiscardsStale(st, result) ==
    IF result.ok /\ result.data[1].for = QueryFor(st.lastLocation[1])
    THEN Effect([ st EXCEPT !.currentWeather = result.data, !.showingForecast = FALSE ],
                << formatCurrentWeather(result.data[1], CoordinatesOf(st.lastLocation[1])) >>,
                Absent)
    ELSE IF result.ok THEN Effect(st, << >>, Absent)
    ELSE Effect(st, << "unableToGetWeather" >>, Absent)

\* mutant: the catch block also drops the cached reading
showCurrentWeatherResumed_ClearsOnFailure(st, result) ==
    IF result.ok
    THEN Effect([ st EXCEPT !.currentWeather = result.data, !.showingForecast = FALSE ],
                << formatCurrentWeather(result.data[1], CoordinatesOf(st.lastLocation[1])) >>,
                Absent)
    ELSE Effect([ st EXCEPT !.currentWeather = Absent ], << "unableToGetWeather" >>, Absent)

\* mutant: the reading is stored and displayed, the view flag is left alone
showCurrentWeatherResumed_KeepsFlag(st, result) ==
    IF result.ok
    THEN Effect([ st EXCEPT !.currentWeather = result.data ],
                << formatCurrentWeather(result.data[1], CoordinatesOf(st.lastLocation[1])) >>,
                Absent)
    ELSE Effect(st, << "unableToGetWeather" >>, Absent)

\* showCurrentWeather, lines 185-204: after the awaited call returned or threw
showCurrentWeatherResumed(st, result) ==
    IF result.ok
    THEN Effect([ st EXCEPT !.currentWeather = result.data, !.showingForecast = FALSE ],
                << formatCurrentWeather(result.data[1], CoordinatesOf(st.lastLocation[1])) >>,
                Absent)
    ELSE Effect(st, << "unableToGetWeather" >>, Absent)

\* mutant: the view flag is set whether or not the call returned
showForecastResumed_FlagOnFailure(st, result) ==
    IF result.ok
    THEN Effect([ st EXCEPT !.forecast = result.data, !.showingForecast = TRUE ],
                << formatForecast(result.data[1], st.lastLocation[1].city,
                                  CoordinatesOf(st.lastLocation[1])) >>,
                Absent)
    ELSE Effect([ st EXCEPT !.showingForecast = TRUE ], << "unableToGetForecast" >>, Absent)

\* mutant: the catch block of showForecast displays nothing
showForecastResumed_SilentFailure(st, result) ==
    IF result.ok
    THEN Effect([ st EXCEPT !.forecast = result.data, !.showingForecast = TRUE ],
                << formatForecast(result.data[1], st.lastLocation[1].city,
                                  CoordinatesOf(st.lastLocation[1])) >>,
                Absent)
    ELSE Effect(st, << >>, Absent)

\* showForecast, lines 226-245: after the awaited call returned or threw
showForecastResumed(st, result) ==
    IF result.ok
    THEN Effect([ st EXCEPT !.forecast = result.data, !.showingForecast = TRUE ],
                << formatForecast(result.data[1], st.lastLocation[1].city,
                                  CoordinatesOf(st.lastLocation[1])) >>,
                Absent)
    ELSE Effect(st, << "unableToGetForecast" >>, Absent)

--------------------------------------------------------------------------
(* WeatherService.transformForecastData: the forecast aggregator.
   A reading (an item of data.list) is a record: dt_txt as its two parts
   around the space, the date and the time; main.temp in tenths of a degree;
   weather[0].description and weather[0].icon. *)

\* the forecast keeps at most this many days: slice(0, 5)
MaxDays == 5

\* Math.round of a number given in tenths: floor(x + 0.5)
MathRound(tenths) == (tenths + 5) \div 10

\* item.dt_txt.split(' ')[0]
DateOf(item) == item.dt_txt[1]

\* the distinct values of a sequence in the order they are first seen: the
\* key order of a Map, and of an object with non-numeric string keys
FirstSeen(seq) ==
    LET F[n \in 0..Len(seq)] ==
            IF n = 0 THEN << >>
            ELSE IF seq[n] \in Range(F[n - 1]) THEN F[n - 1]
            ELSE Append(F[n - 1], seq[n])
    IN  F[Len(seq)]

\* getMostCommon: counts per value, then Object.keys(counts).reduce(
\* (a, b) => counts[a] > counts[b] ? a : b) without an initial value
getMostCommon(arr) ==
    LET counts == [ val \in Range(arr) |->
                      Cardinality({ i \in DOMAIN arr : arr[i] = val }) ]
        keys == FirstSeen(arr)
        reduce[n \in 1..Len(keys)] ==
            IF n = 1 THEN keys[1]
            ELSE LET a == reduce[n - 1]
                     b == keys[n]
                 IN  IF counts[a] > counts[b] THEN a ELSE b
    IN  reduce[Len(keys)]

\* dayData of a date: the readings of that date, in the order of data.list
DayData(data, date) == SelectSeq(data, LAMBDA item : DateOf(item) = date)

\* dayData.temps, dayData.descriptions, dayData.icons
Temps(dayData) == [ i \in DOMAIN dayData |-> dayData[i].temp ]
Descriptions(dayData) == [ i \in DOMAIN dayData |-> dayData[i].description ]
Icons(dayData) == [ i \in DOMAIN dayData |-> dayData[i].icon ]

\* date.toLocaleDateString('en', { weekday: 'short' }): a value fixed by the date
DayName(date) == << "weekday", date >>

\* mutant: every day of the payload is kept (no slice)
transformForecastData_KeepsEveryDay(data) ==
    LET dates == FirstSeen([ i \in DOMAIN data |-> DateOf(data[i]) ])
    IN  [ n \in 1..Len(dates) |->
            LET dayData == DayData(data, dates[n])
            IN  [ date |-> dates[n],
                  dayName |-> DayName(dates[n]),
                  high |-> MathRound(Max(Range(Temps(dayData)))),
                  low |-> MathRound(Min(Range(Temps(dayData)))),
                  description |-> getMostCommon(Descriptions(dayData)),
                  icon |-> getMostCommon(Icons(dayData)) ] ]

\* mutant: high is taken from the first reading of the day
transformForecastData_HighOfFirst(data) ==
    LET dates == FirstSeen([ i \in DOMAIN data |-> DateOf(data[i]) ])
    IN  [ n \in 1..Min({ MaxDays, Len(dates) }) |->
            LET dayData == DayData(data, dates[n])
            IN  [ date |-> dates[n],
                  dayName |-> DayName(dates[n]),
                  high |-> MathRound(Temps(dayData)[1]),
                  low |-> MathRound(Min(Range(Temps(dayData)))),
                  description |-> getMostCommon(Descriptions(dayData)),
                  icon |-> getMostCommon(Icons(dayData)) ] ]

\* transformForecastData
transformForecastData(data) ==
    LET dates == FirstSeen([ i \in DOMAIN data |-> DateOf(data[i]) ])
    IN  [ n \in 1..Min({ MaxDays, Len(dates) }) |->
            LET dayData == DayData(data, dates[n])
            IN  [ date |-> dates[n],
                  dayName |-> DayName(dates[n]),
                  high |-> MathRound(Max(Range(Temps(dayData)))),
                  low |-> MathRound(Min(Range(Temps(dayData)))),
                  description |-> getMostCommon(Descriptions(dayData)),
                  icon |-> getMostCommon(Icons(dayData)) ] ]

--------------------------------------------------------------------------
(* The state machine *)

Started == DOMAIN state

\* an awaited provider call: the call, whether a call issued after it has
\* already returned and updated the state (overtaken) and, for as long as no
\* other event of the session has run since, how it was issued: the event
\* that led to it, the session state when that event arrived (before) and
\* when the call was issued (issued)
Request(s, fetch, event, before, st) ==
    [ sid |-> s, kind |-> fetch.kind, query |-> fetch.query, overtaken |-> FALSE,
      at |-> Some([ event |-> event, before |-> before, issued |-> st ]) ]

\* an event of session s ran: its awaited calls are no longer undisturbed
Disturbed(reqs, s) ==
    [ i \in DOMAIN reqs |->
        IF reqs[i].sid = s THEN [ reqs[i] EXCEPT !.at = Absent ] ELSE reqs[i] ]

Remove(reqs, i) ==
    [ j \in 1..(Len(reqs) - 1) |-> IF j < i THEN reqs[j] ELSE reqs[j + 1] ]

\* the i-th call returned and its result was stored: the calls of the same
\* session issued before it and still awaited have been overtaken
Overtaken(reqs, i) ==
    [ j \in DOMAIN reqs |->
        IF j < i /\ reqs[j].sid = reqs[i].sid
        THEN [ reqs[j] EXCEPT !.overtaken = TRUE ] ELSE reqs[j] ]

Event(op, s, in, req) == [ op |-> op, sid |-> s, in |-> in, req |-> req ]

\* a handler of session s ran up to its return or first await
Run(s, eff, event) ==
    /\ IsSome(eff.fetch) => Len(pending) < MaxPending
    /\ state' = [ state EXCEPT ![s] = eff.st ]
    /\ display' = [ display EXCEPT
                      ![s] = IF eff.shown = << >> THEN @ ELSE eff.shown[Len(eff.shown)] ]
    /\ pending' = IF IsSome(eff.fetch)
                  THEN Append(Disturbed(pending, s),
                              Request(s, eff.fetch[1], event, state[s], eff.st))
                  ELSE Disturbed(pending, s)
    /\ last' = event
    /\ UNCHANGED << sessionStates, subscribed, list, forecastData,
                 input, parsed >>

Init ==
    /\ sessionStates = {}
    /\ state = << >>
    /\ subscribed = {}
    /\ display = << >>
    /\ pending = << >>
    /\ last = Event("init", "", << >>, Absent)
    /\ list = << >>
    /\ forecastData = Absent
    /\ input = << >>
    /\ parsed = Absent

\* onSession, lines 29-83
OnSession(s, hasLocation) ==
    /\ s \notin Started
    /\ sessionStates' = sessionStates \cup { s }
    /\ state' = [ x \in Started \cup { s } |-> IF x = s THEN InitialState ELSE state[x] ]
    /\ display' = [ x \in Started \cup { s } |-> IF x = s THEN "welcome" ELSE display[x] ]
    /\ subscribed' = IF hasLocation THEN subscribed \cup { s } ELSE subscribed
    /\ last' = Event("onSession", s, << hasLocation >>, Absent)
    /\ UNCHANGED << pending, list, forecastData,
                 input, parsed >>

\* mutant: a session's stop empties the whole registry
OnStop_ClearsRegistry(s) ==
    /\ s \in sessionStates
    /\ sessionStates' = {}
    /\ last' = Event("onStop", s, << >>, Absent)
    /\ UNCHANGED << state, subscribed, display, pending, list, forecastData,
                 input, parsed >>

\* onStop, lines 248-251
OnStop(s) ==
    /\ s \in sessionStates
    /\ sessionStates' = sessionStates \ { s }
    /\ last' = Event("onStop", s, << >>, Absent)
    /\ UNCHANGED << state, subscribed, display, pending, list, forecastData,
                 input, parsed >>

\* the onTranscription handler, lines 41-53
Transcription(s, text, isFinal) ==
    /\ s \in sessionStates
    /\ Run(s,
           IF isFinal THEN handleVoiceCommand(state[s], CommandText[text])
           ELSE Effect(state[s], << >>, Absent),
           IF isFinal THEN Event("transcription", s, << text >>, Absent)
           ELSE Event("ignored", s, << >>, Absent))

\* the onButtonPress handler, lines 56-60
ButtonPress(s, button, action) ==
    /\ s \in sessionStates
    /\ Run(s,
           IF action = "press" THEN handleButtonPress(state[s], button)
           ELSE Effect(state[s], << >>, Absent),
           IF action = "press" THEN Event("buttonPress", s, << button >>, Absent)
           ELSE Event("ignored", s, << >>, Absent))

\* mutant: every location update replaces the session's location
LocationUpdate_AlwaysSeeds(s, lat, lng) ==
    /\ s \in sessionStates
    /\ s \in subscribed
    /\ Run(s,
           showCurrentWeather(
               [ state[s] EXCEPT !.lastLocation = Some(StreamLocation(lat, lng)) ]),
           Event("locationUpdate", s, << lat, lng >>, Absent))

\* the location stream's callback, lines 65-79
LocationUpdate(s, lat, lng) ==
    /\ s \in sessionStates
    /\ s \in subscribed
    /\ Run(s,
           IF ~IsSome(state[s].lastLocation)
           THEN showCurrentWeather(
                    [ state[s] EXCEPT !.lastLocation = Some(StreamLocation(lat, lng)) ])
           ELSE Effect(state[s], << >>, Absent),
           IF ~IsSome(state[s].lastLocation)
           THEN Event("locationUpdate", s, << lat, lng >>, Absent)
           ELSE Event("ignored", s, << >>, Absent))

\* the provider answers the i-th awaited call and its handler resumes
FetchCompleted(i, response) ==
    /\ i \in DOMAIN pending
    /\ LET r == pending[i]
           result == ServiceCall(r, response)
           eff == IF r.kind = "current"
                  THEN showCurrentWeatherResumed(state[r.sid], result)
                  ELSE showForecastResumed(state[r.sid], result)
       IN  /\ state' = [ state EXCEPT ![r.sid] = eff.st ]
           /\ display' = [ display EXCEPT
                             ![r.sid] = IF eff.shown = << >> THEN @
                                        ELSE eff.shown[Len(eff.shown)] ]
           /\ pending' = Disturbed(
                             Remove(IF result.ok THEN Overtaken(pending, i) ELSE pending, i),
                             r.sid)
           /\ last' = Event("fetchCompleted", r.sid, << response >>, Some(r))
    /\ UNCHANGED << sessionStates, subscribed, list, forecastData,
                 input, parsed >>

Next ==
    \/ \E s \in Sessions, hasLocation \in BOOLEAN : OnSession(s, hasLocation)
    \/ \E s \in Sessions : OnStop(s)
    \/ \E s \in Sessions, text \in Transcripts, isFinal \in BOOLEAN :
           Transcription(s, text, isFinal)
    \/ \E s \in Sessions, button \in Buttons, action \in ButtonActions :
           ButtonPress(s, button, action)
    \/ \E s \in Sessions, lat \in Latitudes, lng \in Longitudes : LocationUpdate(s, lat, lng)
    \/ \E i \in 1..MaxPending, response \in Responses : FetchCompleted(i, response)

Spec == Init /\ [][Next]_vars

\* the commands of the runs in which every awaited call is answered: one
\* that sets a location and asks for the weather, one that asks for the
\* forecast, and the two buttons that act
LiveTranscripts == { TokyoTranscript, JoinWords(<< W_show, W_forecast >>) }
LiveButtons == { "forward", "back" }
LiveLatitudes == { 35 }

LiveNext ==
    \/ \E s \in Sessions : OnSession(s, TRUE)
    \/ \E s \in Sessions : OnStop(s)
    \/ \E s \in Sessions, text \in LiveTranscripts : Transcription(s, text, TRUE)
    \/ \E s \in Sessions, button \in LiveButtons : ButtonPress(s, button, "press")
    \/ \E s \in Sessions, lat \in LiveLatitudes, lng \in Longitudes :
           LocationUpdate(s, lat, lng)
    \/ \E i \in 1..MaxPending, response \in Responses : FetchCompleted(i, response)

\* the provider answers every call in the end, with a result or an error: the
\* call awaited longest does not stay unanswered forever
LiveSpec ==
    /\ Init
    /\ [][LiveNext]_vars
    /\ WF_vars(\E response \in Responses : FetchCompleted(1, response))

\* a session driven by the two weather commands of the README: "Weather in
\* [city]" and "What's the weather like?"
ReadmeTranscripts == { TokyoTranscript, WeatherLikeTranscript }

ReadmeNext ==
    \/ \E s \in Sessions, hasLocation \in BOOLEAN : OnSession(s, hasLocation)
    \/ \E s \in Sessions : OnStop(s)
    \/ \E s \in Sessions, text \in ReadmeTranscripts : Transcription(s, text, TRUE)
    \/ \E s \in Sessions, lat \in LiveLatitudes, lng \in Longitudes :
           LocationUpdate(s, lat, lng)
    \/ \E i \in 1..MaxPending, response \in Responses : FetchCompleted(i, response)

ReadmeSpec == Init /\ [][ReadmeNext]_vars

\* two sessions served by the one WeatherGlassesApp at the same time: s1
\* has no location capability and is driven by voice, s2 has the location
\* stream; both have the buttons
ConcurrentSessions == { "s1", "s2" }

ConcurrentNext ==
    \/ OnSession("s1", FALSE)
    \/ OnSession("s2", TRUE)
    \/ \E s \in ConcurrentSessions : OnStop(s)
    \/ Transcription("s1", TokyoTranscript, TRUE)
    \/ \E s \in ConcurrentSessions : ButtonPress(s, "forward", "press")
    \/ \E lat \in LiveLatitudes, lng \in Longitudes : LocationUpdate("s2", lat, lng)
    \/ \E i \in 1..MaxPending, response \in Responses : FetchCompleted(i, response)

ConcurrentSpec == Init /\ [][ConcurrentNext]_vars

\* the forecast payloads the provider answers with: up to MaxReadings
\* readings over two dates, four temperatures (in tenths of a degree) and
\* three conditions (the provider's icon of a description has a day and a
\* night form)
MaxReadings == 3
Dates == { "2024-01-01", "2024-01-02" }
Temperatures == { -5, 100, 120, 150 }
Conditions ==
    { [ description |-> "clear sky", icon |-> "01d" ],
      [ description |-> "clear sky", icon |-> "01n" ],
      [ description |-> "light rain", icon |-> "10d" ] }

Readings ==
    { [ dt_txt |-> << date, "12:00:00" >>, temp |-> temp,
        description |-> c.description, icon |-> c.icon ] :
        date \in Dates, temp \in Temperatures, c \in Conditions }

ForecastLists == UNION { [ 1..n -> Readings ] : n \in 0..MaxReadings }

\* the payloads that span up to a week: one reading for each of some of the
\* seven dates, in any order of the dates, followed or not by one more
\* reading for a date already met (WeekInit)
WeekDates ==
    { "2024-01-01", "2024-01-02", "2024-01-03", "2024-01-04",
      "2024-01-05", "2024-01-06", "2024-01-07" }

NoonReading(date) ==
    [ dt_txt |-> << date, "12:00:00" >>, temp |-> 100,
      description |-> "clear sky", icon |-> "01d" ]

NightReading(date) ==
    [ dt_txt |-> << date, "21:00:00" >>, temp |-> 120,
      description |-> "light rain", icon |-> "10d" ]

\* a payload has arrived and is about to be transformed
AggregatorInit ==
    /\ sessionStates = {}
    /\ state = << >>
    /\ subscribed = {}
    /\ display = << >>
    /\ pending = << >>
    /\ last = Event("init", "", << >>, Absent)
    /\ list \in ForecastLists
    /\ forecastData = Absent
    /\ input = << >>
    /\ parsed = Absent

\* getForecast / getForecastByCoords: return this.transformForecastData(response.data)
TransformForecastData ==
    /\ forecastData = Absent
    /\ forecastData' = Some(transformForecastData(list))
    /\ UNCHANGED << sessionStates, state, subscribed, display, pending, last, list,
                 input, parsed >>

AggregatorNext == TransformForecastData

AggregatorSpec == AggregatorInit /\ [][AggregatorNext]_vars

\* a payload of ForecastLists or one spanning up to a week has arrived
WeekInit ==
    /\ sessionStates = {}
    /\ state = << >>
    /\ subscribed = {}
    /\ display = << >>
    /\ pending = << >>
    /\ last = Event("init", "", << >>, Absent)
    /\ forecastData = Absent
    /\ input = << >>
    /\ parsed = Absent
    /\ \/ list \in ForecastLists
       \/ \E n \in 0..Cardinality(WeekDates) :
             \E dates \in [ 1..n -> WeekDates ] :
                /\ \A i, j \in 1..n : dates[i] = dates[j] => i = j
                /\ \E again \in 0..n :
                      list = [ i \in 1..n |-> NoonReading(dates[i]) ]
                                \o IF again = 0 THEN << >>
                                   ELSE << NightReading(dates[again]) >>

WeekSpec == WeekInit /\ [][AggregatorNext]_vars

--------------------------------------------------------------------------
(* The intent parser on its own: texts made of a few words *)

\* at most this many words in a text handed to the parser
MaxWords == 4

W_the == << "t","h","e" >>
W_new == << "n","e","w" >>
W_York == << "Y","o","r","k" >>
W_whats == << "w","h","a","t","'","s" >>

ParserWords == { W_weather, W_in, W_the, W_new, W_York, W_whats }

\* the words joined by single spaces, from no word to MaxWords words
ParserTexts ==
    { JoinWords(ws) : ws \in UNION { [ 1..n -> ParserWords ] : n \in 0..MaxWords } }

\* a text is about to be parsed
ParserInit ==
    /\ sessionStates = {}
    /\ state = << >>
    /\ subscribed = {}
    /\ display = << >>
    /\ pending = << >>
    /\ last = Event("init", "", << >>, Absent)
    /\ list = << >>
    /\ forecastData = Absent
    /\ input \in ParserTexts
    /\ parsed = Absent

\* handleVoiceCommand: const location = parseLocationFromText(text)
ParseLocationFromText ==
    /\ parsed = Absent
    /\ parsed' = Some(parseLocationFromText(input))
    /\ UNCHANGED << sessionStates, state, subscribed, display, pending, last, list,
                    forecastData, input >>

ParserNext == ParseLocationFromText

ParserSpec == ParserInit /\ [][ParserNext]_vars

--------------------------------------------------------------------------
(* Properties *)

\* the step just taken resumed a handler whose provider call returned
FetchSucceeded == last.op = "fetchCompleted" /\ last.in[1] = "200"

\* the step just taken resumed a handler whose provider call threw
FetchFailed == last.op = "fetchCompleted" /\ last.in[1] # "200"

\* the call just answered, and how it was issued
LastRequest == last.req[1]
LastIssue == last.req[1].at[1]

\* the call just answered was awaited with no other event of its session
\* running between its issue and its answer
Undisturbed == IsSome(last.req[1].at)

\* C1: in every reachable state of every session, showingForecast = true
\* implies that the forecast cache is present.
C1_ForecastViewHasCache ==
    \A s \in Started : state[s].showingForecast => IsSome(state[s].forecast)

\* C1 happens: a forecast call returned while another call was still awaited,
\* and the session shows the forecast
C1_Witness ==
    /\ FetchSucceeded
    /\ LastRequest.kind = "forecast"
    /\ state[last.sid].showingForecast
    /\ pending # << >>

\* C2 (as claimed): when the fetch of a command (a final transcript or a
\* button press) fails, lastLocation after the command has been handled
\* equals lastLocation before the command was received. Stated for the
\* commands no other event of the session interleaved with.
C2_FailedFetchKeepsLastLocation ==
    ( /\ FetchFailed
      /\ Undisturbed
      /\ LastIssue.event.op \in { "transcription", "buttonPress" } )
    => state[last.sid].lastLocation = LastIssue.before.lastLocation

\* C3: when a current-weather or forecast fetch fails and no other event of
\* the session ran since it was issued, the currentWeather cache, the
\* forecast cache and showingForecast are what they were at the issue.
C3_FailedFetchKeepsCaches ==
    ( FetchFailed /\ Undisturbed )
    => /\ state[last.sid].currentWeather = LastIssue.issued.currentWeather
       /\ state[last.sid].forecast = LastIssue.issued.forecast
       /\ state[last.sid].showingForecast = LastIssue.issued.showingForecast

\* C3 happens: a call issued from the forecast view, with both caches
\* filled, failed undisturbed
C3_Witness ==
    /\ FetchFailed
    /\ Undisturbed
    /\ LastIssue.issued.showingForecast
    /\ IsSome(LastIssue.issued.currentWeather)
    /\ IsSome(LastIssue.issued.forecast)

\* C4: a 'back' press, from any state and with or without a call awaited,
\* displays the welcome message, leaves showingForecast = false and changes
\* neither lastLocation nor the caches.
C4_BackResets ==
    [][ ( last'.op = "buttonPress" /\ last'.in = << "back" >> )
        => /\ display'[last'.sid] = "welcomeBack"
           /\ state'[last'.sid] = [ state[last'.sid] EXCEPT !.showingForecast = FALSE ]
      ]_vars

\* C4 happens: 'back' was pressed in the forecast view's state (both caches
\* filled) while a call was awaited
C4_Witness ==
    /\ last.op = "buttonPress"
    /\ last.in = << "back" >>
    /\ IsSome(state[last.sid].forecast)
    /\ IsSome(state[last.sid].currentWeather)
    /\ pending # << >>
    /\ ~state[last.sid].showingForecast

\* the session state is read or written by the handler of the step just taken
\* (a button press that reaches a case, a final transcript that reaches a
\* branch looking at lastLocation)
HandlerTouchedState ==
    \/ last.op = "buttonPress" /\ last.in[1] \in { "forward", "select", "back" }
    \/ /\ last.op = "transcription"
       /\ Mentions[CommandText[last.in[1]]]
              \cap { W_weather, W_forecast, W_current, W_now, W_location, W_where } # {}

\* C5 (as claimed): no event handler of a session reads or writes the session
\* state while a provider call issued by an earlier event of that session is
\* still awaited.
C5_EventsRunToCompletion ==
    ~ ( /\ HandlerTouchedState
        /\ \E i \in DOMAIN pending :
               pending[i].sid = last.sid /\ ~IsSome(pending[i].at) )

FormattedCurrent == { "currentWeather", "currentWeatherWithCoordinates" }
FormattedForecast == { "forecast", "forecastWithCoordinates" }

\* C6: no result is dropped as stale: whenever a call returns, also after a
\* call issued later has returned and updated the state, its result is
\* stored in the cache of its kind, showingForecast is set by its kind
\* (false for current weather, true for forecast) and it is displayed.
C6_StaleResultsAreWritten ==
    FetchSucceeded
    => LET data == ServiceCall(LastRequest, "200").data
       IN  IF LastRequest.kind = "current"
           THEN /\ state[last.sid].currentWeather = data
                /\ ~state[last.sid].showingForecast
                /\ display[last.sid] \in FormattedCurrent
           ELSE /\ state[last.sid].forecast = data
                /\ state[last.sid].showingForecast
                /\ display[last.sid] \in FormattedForecast

\* C6 happens: a current-weather call returned after a forecast call issued
\* later had returned, and took the view back from the forecast
C6_Witness ==
    /\ FetchSucceeded
    /\ LastRequest.overtaken
    /\ LastRequest.kind = "current"
    /\ IsSome(state[last.sid].forecast)
    /\ ~state[last.sid].showingForecast

W_Tokyo == << "T","o","k","y","o" >>

\* a final transcript 'weather in <X>' arrived with no location set, its call
\* returned, and no other event of the session ran in between
IdleWeatherInSucceeded ==
    /\ FetchSucceeded
    /\ Undisturbed
    /\ LastIssue.event.op = "transcription"
    /\ ~IsSome(LastIssue.before.lastLocation)
    /\ W_weather \in Mentions[CommandText[LastIssue.event.in[1]]]
    /\ IsLocation(ParsedLocation[CommandText[LastIssue.event.in[1]]])

\* C7 (as claimed): from Idle, 'weather in <X>' and a successful fetch leave
\* the session in ShowingCurrent with lastLocation.city exactly the parsed,
\* title-cased X and no lat/lng.
C7_CityIsParsedLocation ==
    IdleWeatherInSucceeded
    => /\ IsSome(state[last.sid].currentWeather)
       /\ ~state[last.sid].showingForecast
       /\ state[last.sid].lastLocation =
              Some([ city |-> ParsedLocation[CommandText[LastIssue.event.in[1]]][1],
                     lat |-> Absent, lng |-> Absent ])

\* C7 (amended): from Idle, 'weather in <X>' and a successful fetch leave the
\* session in ShowingCurrent with lastLocation.city the voice indicator
\* glyph, a space and the parsed, title-cased X ("Tokyo" for "Weather in
\* Tokyo"), and no lat/lng.
C7_CityIsIndicatorAndParsedLocation ==
    IdleWeatherInSucceeded
    => LET X == ParsedLocation[CommandText[LastIssue.event.in[1]]][1]
       IN  /\ IsSome(state[last.sid].currentWeather)
           /\ ~state[last.sid].showingForecast
           /\ state[last.sid].lastLocation =
                  Some([ city |-> getLocationTypeIndicator(FALSE) \o << " " >> \o X,
                         lat |-> Absent, lng |-> Absent ])
           /\ LastIssue.event.in[1] = TokyoTranscript => X = W_Tokyo

\* C7 happens: "Weather in Tokyo" from Idle, answered with a reading
C7_Witness ==
    /\ IdleWeatherInSucceeded
    /\ LastIssue.event.in[1] = TokyoTranscript
    /\ LastIssue.before = InitialState

\* C8 (as claimed): a final transcript containing 'weather' with a parsable
\* location makes that location lastLocation and clears the currentWeather
\* and forecast caches before the new call is issued.
C8_LocationChangeClearsCaches ==
    ( /\ last.op = "transcription"
      /\ W_weather \in Mentions[CommandText[last.in[1]]]
      /\ IsLocation(ParsedLocation[CommandText[last.in[1]]]) )
    => /\ state[last.sid].lastLocation =
              Some(VoiceLocation(ParsedLocation[CommandText[last.in[1]]][1]))
       /\ state[last.sid].currentWeather = Absent
       /\ state[last.sid].forecast = Absent

LocationPrompts ==
    { "promptWeatherLocation", "promptForecastLocation", "promptCurrentLocation" }

\* a final transcript of the 'weather' branch without a parsable location, of
\* the 'forecast' branch or of the 'current'/'now' branch
NeedsKnownLocation(text) ==
    /\ Mentions[text] \cap { W_weather, W_forecast, W_current, W_now } # {}
    /\ ~ ( W_weather \in Mentions[text] /\ IsLocation(ParsedLocation[text]) )

\* C9: no call is issued while the session has no location: such a
\* transcript, received while lastLocation is absent, displays a location
\* prompt, issues no call and leaves the session state unchanged; and every
\* call is issued from a state with a location.
C9_NoFetchWithoutLocation ==
    [][ /\ ( /\ last'.op = "transcription"
             /\ ~IsSome(state[last'.sid].lastLocation)
             /\ NeedsKnownLocation(CommandText[last'.in[1]]) )
           => /\ state'[last'.sid] = state[last'.sid]
              /\ Len(pending') = Len(pending)
              /\ display'[last'.sid] \in LocationPrompts
        /\ \A i \in DOMAIN pending' :
               IsSome(pending'[i].at) => IsSome(pending'[i].at[1].issued.lastLocation)
      ]_vars

\* C9 happens: "show forecast" arrived with no location set
C9_Witness ==
    /\ last.op = "transcription"
    /\ W_forecast \in Mentions[CommandText[last.in[1]]]
    /\ W_weather \notin Mentions[CommandText[last.in[1]]]
    /\ ~IsSome(state[last.sid].lastLocation)
    /\ display[last.sid] = "promptForecastLocation"
    /\ pending = << >>

\* C10 (as claimed): for every final transcript containing 'forecast' that
\* arrives while a location is known, a forecast call is issued and, when it
\* returns, the session shows the forecast (forecast cached, showingForecast
\* true) with lastLocation unaltered.
C10_ForecastTranscriptShowsForecast ==
    ( /\ FetchSucceeded
      /\ Undisturbed
      /\ LastIssue.event.op = "transcription"
      /\ W_forecast \in Mentions[CommandText[LastIssue.event.in[1]]]
      /\ IsSome(LastIssue.before.lastLocation) )
    => /\ LastRequest.kind = "forecast"
       /\ IsSome(state[last.sid].forecast)
       /\ state[last.sid].showingForecast
       /\ state[last.sid].lastLocation = LastIssue.before.lastLocation

\* C11 (as claimed): every final transcript that contains 'help' displays the
\* command summary, leaves the session state unchanged and issues no call.
C11_HelpShowsSummary ==
    [][ ( /\ last'.op = "transcription"
          /\ W_help \in Mentions[CommandText[last'.in[1]]] )
        => /\ display'[last'.sid] = "help"
           /\ state'[last'.sid] = state[last'.sid]
           /\ Len(pending') = Len(pending)
      ]_vars

\* the step just taken was a press of 'forward' or 'select'
ForwardOrSelectPressed ==
    last.op = "buttonPress" /\ last.in[1] \in { "forward", "select" }

\* C12: a 'forward' or 'select' press acts by the view flag: with
\* showingForecast true it issues a current-weather call, with showingForecast
\* false and a currentWeather cache it issues a forecast call, in every other
\* state it changes no state, issues no call and displays nothing; and when
\* the call of such a press returns (no other event of the session in
\* between) showingForecast is the opposite of what it was at the press.
C12_ForwardSelectActsByViewFlag ==
    [][ /\ ForwardOrSelectPressed'
           => LET s == last'.sid
                  st == state[s]
                  issued(kind) == /\ Len(pending') = Len(pending) + 1
                                  /\ pending'[Len(pending')].sid = s
                                  /\ pending'[Len(pending')].kind = kind
              IN  /\ state'[s] = st
                  /\ IF st.showingForecast
                     THEN issued("current") /\ display'[s] = "gettingWeather"
                     ELSE IF IsSome(st.currentWeather)
                     THEN issued("forecast") /\ display'[s] = "gettingForecast"
                     ELSE Len(pending') = Len(pending) /\ display'[s] = display[s]
        /\ ( /\ FetchSucceeded'
             /\ Undisturbed'
             /\ LastIssue'.event.op = "buttonPress" )
           => state'[last'.sid].showingForecast = ~LastIssue'.before.showingForecast
      ]_vars

\* C12 happens: 'forward' or 'select' was pressed in the forecast view, its
\* current-weather call returned and the session left the forecast view
C12_Witness ==
    /\ FetchSucceeded
    /\ Undisturbed
    /\ LastIssue.event.op = "buttonPress"
    /\ LastIssue.before.showingForecast
    /\ LastRequest.kind = "current"
    /\ ~state[last.sid].showingForecast

\* C13 (as claimed): button events never issue a call to the provider.
C13_ButtonsNeverFetch ==
    [][ last'.op = "buttonPress" => Len(pending') = Len(pending) ]_vars

\* C13 (amended): a button press never displays a cached reading or forecast.
\* A 'forward' or 'select' press issues one provider call for lastLocation
\* whenever showingForecast is true or a currentWeather cache is present, and
\* then displays the 'getting data' text; every other press issues no call.
C13_ButtonPressFetches ==
    [][ last'.op = "buttonPress"
        => LET s == last'.sid
               st == state[s]
               acts == /\ last'.in[1] \in { "forward", "select" }
                       /\ st.showingForecast \/ IsSome(st.currentWeather)
           IN  /\ display'[s] \notin FormattedCurrent \cup FormattedForecast
                  \/ display'[s] = display[s]
               /\ IF acts
                  THEN /\ Len(pending') = Len(pending) + 1
                       /\ pending'[Len(pending')].query = QueryFor(st.lastLocation[1])
                       /\ display'[s] \in { "gettingWeather", "gettingForecast" }
                  ELSE Len(pending') = Len(pending)
      ]_vars

\* C13 happens: 'forward' or 'select' was pressed with both caches filled and
\* a provider call was issued for the forecast
C13_Witness ==
    /\ ForwardOrSelectPressed
    /\ IsSome(state[last.sid].currentWeather)
    /\ IsSome(state[last.sid].forecast)
    /\ ~state[last.sid].showingForecast
    /\ pending # << >>
    /\ pending[Len(pending)].kind = "forecast"
    /\ IsSome(pending[Len(pending)].at)
    /\ display[last.sid] = "gettingForecast"

Kinds == { "current", "forecast" }

\* the text displayed before a call of a kind is awaited
GettingText(kind) == IF kind = "current" THEN "gettingWeather" ELSE "gettingForecast"

\* the texts that end a call of a kind answered with response
ClosingTexts(kind, response) ==
    IF response = "200"
    THEN IF kind = "current" THEN FormattedCurrent ELSE FormattedForecast
    ELSE IF kind = "current" THEN { "unableToGetWeather" } ELSE { "unableToGetForecast" }

\* the step just taken answered a call of a kind and its closing text is on
\* the display
Closed(kind) ==
    /\ last.op = "fetchCompleted"
    /\ LastRequest.kind = kind
    /\ display[last.sid] \in ClosingTexts(kind, last.in[1])

\* C14: every call is bracketed by displays: the 'getting data' text is on
\* the display when the call is issued; when the call is answered its handler
\* displays exactly one text, the formatted result on a return and the error
\* message on a failure; a failure leaves the session registered and the
\* next transcript is handled; and, every awaited call being answered in the
\* end, every awaited call is closed by such a display.
C14_FetchBracketedByDisplays ==
    /\ [][ /\ Len(pending') > Len(pending)
               => display'[last'.sid] = GettingText(pending'[Len(pending')].kind)
           /\ last'.op = "fetchCompleted"
               => LET r == last'.req[1]
                      result == ServiceCall(r, last'.in[1])
                      eff == IF r.kind = "current"
                             THEN showCurrentWeatherResumed(state[r.sid], result)
                             ELSE showForecastResumed(state[r.sid], result)
                  IN  /\ Len(eff.shown) = 1
                      /\ display'[r.sid] = eff.shown[1]
                      /\ display'[r.sid] \in ClosingTexts(r.kind, last'.in[1])
                      /\ sessionStates' = sessionStates
         ]_vars
    /\ []( ( FetchFailed /\ last.sid \in sessionStates )
            => ENABLED Transcription(last.sid, W_help, TRUE) )
    /\ \A k \in Kinds :
           ( \E n \in DOMAIN pending : pending[n].kind = k ) ~> Closed(k)

\* C14 happens: a forecast call failed while another call was awaited; the
\* error message is on the display and the session is still registered
C14_Witness ==
    /\ FetchFailed
    /\ LastRequest.kind = "forecast"
    /\ display[last.sid] = "unableToGetForecast"
    /\ last.sid \in sessionStates
    /\ pending # << >>

\* the text the handler of the call just answered would have displayed had
\* the provider answered with response
ClosingTextFor(response) ==
    LET result == ServiceCall(LastRequest, response)
    IN  IF LastRequest.kind = "current"
        THEN showCurrentWeatherResumed(state[last.sid], result).shown[1]
        ELSE showForecastResumed(state[last.sid], result).shown[1]

\* C15 (as claimed): the two error kinds are told apart all the way to the
\* user: for a lookup by city and for a lookup by coordinates the service
\* signals a 'not found' (404) answer differently from any other failure, and
\* the text displayed for it differs from the text displayed for another
\* failure.
C15_ErrorKindsToldApart ==
    FetchFailed
    => /\ ServiceCall(LastRequest, "404").error # ServiceCall(LastRequest, "500").error
       /\ ClosingTextFor("404") # ClosingTextFor("500")
       /\ display[last.sid] = ClosingTextFor(last.in[1])

\* lat and lng are both populated on a location record
Populated(loc) == IsSome(loc.lat) /\ IsSome(loc.lng)

\* C16 (as claimed): for every call (current weather or forecast) the lookup
\* by coordinates is used exactly when lastLocation has both lat and lng
\* populated, whatever their values, and the lookup by city name exactly when
\* they are not.
C16_StrategyByPopulatedFields ==
    \A i \in DOMAIN pending :
        IsSome(pending[i].at)
        => LET loc == pending[i].at[1].issued.lastLocation[1]
           IN  /\ pending[i].query.by = "coords" <=> Populated(loc)
               /\ pending[i].query.by = "city" <=> ~Populated(loc)

\* C17: the location stream seeds a session's location only when none is
\* set: an update received while lastLocation is present (set by voice or by
\* an earlier update) changes no state, issues no call and displays nothing;
\* an update received while it is absent stores its lat and lng; and a
\* location set by voice afterwards replaces the whole record, so that lat
\* and lng are no longer populated.
C17_StreamSeedsOnlyWhenUnset ==
    [][ \A s \in Sessions :
          /\ ( \E lat \in Latitudes, lng \in Longitudes : LocationUpdate(s, lat, lng) )
             => IF IsSome(state[s].lastLocation)
                THEN /\ state'[s] = state[s]
                     /\ Len(pending') = Len(pending)
                     /\ display'[s] = display[s]
                ELSE Populated(state'[s].lastLocation[1])
          /\ ( /\ last'.op = "transcription"
               /\ last'.sid = s
               /\ W_weather \in Mentions[CommandText[last'.in[1]]]
               /\ IsLocation(ParsedLocation[CommandText[last'.in[1]]]) )
             => /\ state'[s].lastLocation[1].lat = Absent
                /\ state'[s].lastLocation[1].lng = Absent
      ]_vars

\* C17 happens: a session whose location the stream had seeded got a
\* location by voice, and lat and lng are gone
C17_Witness ==
    /\ last.op = "transcription"
    /\ last.sid \in subscribed
    /\ pending # << >>
    /\ IsSome(pending[Len(pending)].at)
    /\ LET before == pending[Len(pending)].at[1].before.lastLocation
       IN  IsSome(before) /\ Populated(before[1])
    /\ ~Populated(state[last.sid].lastLocation[1])

\* C18: session state is owned per session: with two sessions running, an
\* event of one session (start, stop, transcript, button, location update or
\* answer to one of its calls) changes neither the other session's state, nor
\* its display, its registration or its awaited calls; the registry has an
\* entry for a session id after the session's start and none after its stop.
C18_SessionsOwnTheirState ==
    [][ /\ \A t \in Started \ { last'.sid } :
               /\ state'[t] = state[t]
               /\ display'[t] = display[t]
               /\ t \in sessionStates' <=> t \in sessionStates
               /\ t \in subscribed' <=> t \in subscribed
               /\ SelectSeq(pending', LAMBDA r : r.sid = t)
                      = SelectSeq(pending, LAMBDA r : r.sid = t)
        /\ last'.op = "onSession" => last'.sid \in sessionStates'
        /\ last'.op = "onStop" => last'.sid \notin sessionStates'
        /\ \A t \in Started : t \notin sessionStates => t \notin sessionStates'
      ]_vars

\* C18 happens: a call of one session was answered and stored while the other
\* session, with a location and a cached reading of its own, was registered
\* and awaiting a call
C18_Witness ==
    /\ FetchSucceeded
    /\ \E t \in Started \ { last.sid } :
           /\ t \in sessionStates
           /\ IsSome(state[t].currentWeather)
           /\ state[t].lastLocation # state[last.sid].lastLocation
           /\ \E i \in DOMAIN pending : pending[i].sid = t

\* the entries transformForecastData returned
Forecasts == forecastData[1]

\* the number of times val occurs in arr, and where it occurs first
Frequency(arr, val) == Cardinality({ i \in DOMAIN arr : arr[i] = val })
FirstIndex(arr, val) == Min({ i \in DOMAIN arr : arr[i] = val })

\* val has the highest frequency in arr and, of the values that have it, is
\* the one met first
MostFrequentFirstSeen(arr, val) ==
    /\ val \in Range(arr)
    /\ \A other \in Range(arr) :
           \/ Frequency(arr, other) < Frequency(arr, val)
           \/ /\ Frequency(arr, other) = Frequency(arr, val)
              /\ FirstIndex(arr, val) <= FirstIndex(arr, other)

\* C19 (as claimed): for every date group the representative description,
\* and likewise the representative icon, is a value with the highest
\* frequency in the group, and of several values sharing the highest
\* frequency the one met first in the group's reading order.
C19_MostCommonFirstSeenWins ==
    IsSome(forecastData)
    => \A n \in DOMAIN Forecasts :
           LET dayData == DayData(list, Forecasts[n].date)
           IN  /\ MostFrequentFirstSeen(Descriptions(dayData), Forecasts[n].description)
               /\ MostFrequentFirstSeen(Icons(dayData), Forecasts[n].icon)

\* C20: for every date group of the output, high is the maximum and low the
\* minimum of that date's temperatures, each rounded to the nearest integer
\* (at most half a degree away); so high >= low, a date with one reading has
\* high = low, and the temperatures 10, 15, 12 give high 15 and low 10.
C20_HighAndLowAreRoundedExtremes ==
    IsSome(forecastData)
    => \A n \in DOMAIN Forecasts :
           LET temps == Temps(DayData(list, Forecasts[n].date))
               highest == CHOOSE t \in Range(temps) : \A u \in Range(temps) : u <= t
               lowest == CHOOSE t \in Range(temps) : \A u \in Range(temps) : t <= u
           IN  /\ 10 * Forecasts[n].high - highest \in -5..5
               /\ 10 * Forecasts[n].low - lowest \in -5..5
               /\ Forecasts[n].high >= Forecasts[n].low
               /\ Len(temps) = 1 => Forecasts[n].high = Forecasts[n].low
               /\ temps = << 100, 150, 120 >>
                      => Forecasts[n].high = 15 /\ Forecasts[n].low = 10

\* C20 happens: a day with the temperatures 10, 15, 12 was aggregated
C20_Witness ==
    /\ IsSome(forecastData)
    /\ Temps(list) = << 100, 150, 120 >>
    /\ Len(Forecasts) = 1
    /\ Forecasts[1].high = 15
    /\ Forecasts[1].low = 10

\* the dates of the readings of list, and the number of dates first met
\* before a date is
DatesIn(data) == { DateOf(data[i]) : i \in DOMAIN data }
FirstMet(data, date) == Min({ i \in DOMAIN data : DateOf(data[i]) = date })
MetBefore(data, date) ==
    Cardinality({ d \in DatesIn(data) : FirstMet(data, d) < FirstMet(data, date) })

\* C21: the aggregator returns one entry per distinct date for the first
\* min(5, number of distinct dates) dates, in the order in which the dates
\* are first met in the input, also when readings of different dates are
\* interleaved; an empty input gives an empty output and an input spanning
\* 7 distinct dates gives exactly 5 entries.
C21_FirstFiveDatesInFirstSeenOrder ==
    IsSome(forecastData)
    => /\ Len(Forecasts) = Min({ 5, Cardinality(DatesIn(list)) })
       /\ \A n \in DOMAIN Forecasts :
              /\ Forecasts[n].date \in DatesIn(list)
              /\ MetBefore(list, Forecasts[n].date) = n - 1
       /\ list = << >> => Forecasts = << >>
       /\ Cardinality(DatesIn(list)) = 7 => Len(Forecasts) = 5

\* C21 happens: a payload spanning 7 dates, not in calendar order and with a
\* second reading for an earlier date at the end, gave 5 entries
C21_Witness ==
    /\ IsSome(forecastData)
    /\ Cardinality(DatesIn(list)) = 7
    /\ Len(list) = 8
    /\ DateOf(list[1]) = "2024-01-03"
    /\ DateOf(list[2]) = "2024-01-01"
    /\ Len(Forecasts) = 5
    /\ Forecasts[1].date = "2024-01-03"

\* the parser has been applied to the text
Parsed == IsSome(parsed)

\* "weather in " as the lower-cased text has it
WeatherIn == W_weather \o << " " >> \o W_in \o << " " >>

\* the places of the lower-cased text where "weather in " stands
WeatherInAt(s) == { i \in 1..Len(s) : MatchAt(s, i, WeatherIn) }

\* X of a text of the form "... weather in X": what follows the first
\* "weather in " up to the end of the text
LocationPart(s) == Slice(s, Min(WeatherInAt(s)) + Len(WeatherIn), Len(s))

\* the text has the form "... weather in X" with X a run of letters and
\* spaces that is not a stop word
NamesLocation(s) ==
    /\ WeatherInAt(s) # {}
    /\ LocationPart(s) # << >>
    /\ \A i \in DOMAIN LocationPart(s) : IsLocationUnit(LocationPart(s)[i])
    /\ LocationPart(s) \notin stopWords

\* C22: for every text of the form "... weather in X" where X is a run of
\* letters and spaces (one or several words) that is not a stop word, the
\* parser returns the whole of X, title-cased.
C22_ReturnsWholeLocation ==
    (Parsed /\ NamesLocation(toLowerCase(input)))
        => parsed[1] = Some(capitalizeFirst(LocationPart(toLowerCase(input))))

\* C23: the parser never returns a location whose lower-cased text is one
\* of the stop words, and for "the weather" it returns none.
C23_NeverReturnsStopWord ==
    Parsed =>
        /\ IsSome(parsed[1]) => toLowerCase(parsed[1][1]) \notin stopWords
        /\ input = JoinWords(<< W_the, W_weather >>) => parsed[1] = Absent

\* "the weather" has been parsed: its only capture, "the", is a stop word
C23_Witness ==
    /\ Parsed
    /\ input = JoinWords(<< W_the, W_weather >>)
    /\ parsed[1] = Absent

\* C24: the final transcript "what's the weather like" carries no location:
\* with a location already known, lastLocation is left unchanged and the
\* current weather is fetched for that location; with none known, the
\* location prompt is displayed.
C24_WeatherLikeCarriesNoLocation ==
    [][ (last'.op = "transcription" /\ last'.in[1] = WeatherLikeTranscript)
        => LET s == last'.sid
               st == state[s]
           IN  /\ state'[s].lastLocation = st.lastLocation
               /\ IF IsSome(st.lastLocation)
                  THEN /\ Len(pending') = Len(pending) + 1
                       /\ pending'[Len(pending')].kind = "current"
                       /\ pending'[Len(pending')].query = QueryFor(st.lastLocation[1])
                  ELSE /\ Len(pending') = Len(pending)
                       /\ display'[s] = "promptWeatherLocation"
      ]_vars

\* the locations the parser returns for the transcripts
ParsedLocations ==
    { ParsedLocation[t][1] : t \in { u \in DOMAIN ParsedLocation : IsLocation(ParsedLocation[u]) } }

\* C25: for every voice-set location, the city handed to the provider's
\* by-name lookup (current weather and forecast) is exactly the location the
\* parser returned: the indicator and the space after it, prepended when
\* lastLocation.city was stored, are removed completely before the call.
C25_IndicatorStrippedCompletely ==
    [][ Len(pending') = Len(pending) + 1
        => LET r == pending'[Len(pending')]
           IN  \A X \in ParsedLocations :
                   state'[r.sid].lastLocation = Some(VoiceLocation(X))
                       => r.query.by = "city" /\ r.query.city = X
      ]_vars

\* no provider call of session s is awaited
NoFetchInFlight(s) == \A i \in DOMAIN pending : pending[i].sid # s

\* C26: in every reachable state with no fetch in flight, a present
\* currentWeather cache and a present forecast cache were fetched for the
\* session's current lastLocation.
C26_CachesAreForLastLocation ==
    \A s \in Started :
        NoFetchInFlight(s)
            => /\ IsSome(state[s].currentWeather)
                    => /\ IsSome(state[s].lastLocation)
                       /\ state[s].currentWeather[1].for = QueryFor(state[s].lastLocation[1])
               /\ IsSome(state[s].forecast)
                    => /\ IsSome(state[s].lastLocation)
                       /\ state[s].forecast[1].for = QueryFor(state[s].lastLocation[1])

\* C27: whenever the text last sent to the display is a formatted forecast
\* showingForecast is true, and whenever it is a formatted current weather
\* or the welcome message of 'back' showingForecast is false, under every
\* interleaving of events and answers.
C27_ViewFlagAgreesWithScreen ==
    \A s \in Started :
        /\ display[s] \in FormattedForecast => state[s].showingForecast
        /\ display[s] \in FormattedCurrent \cup { "welcomeBack" }
               => ~state[s].showingForecast

\* C27 happens: a forecast answered after a later call for the current
\* weather had already been answered is on the screen, with the flag set
C27_Witness ==
    /\ FetchSucceeded
    /\ LastRequest.kind = "forecast"
    /\ LastRequest.overtaken
    /\ display[last.sid] \in FormattedForecast
    /\ state[last.sid].showingForecast

\* C28: for every date group the representative description and the
\* representative icon describe the same condition: at least one reading of
\* that date carries both.
C28_DescriptionAndIconCoOccur ==
    IsSome(forecastData)
    => \A n \in DOMAIN Forecasts :
           LET dayData == DayData(list, Forecasts[n].date)
           IN  \E i \in DOMAIN dayData :
                   /\ Descriptions(dayData)[i] = Forecasts[n].description
                   /\ Icons(dayData)[i] = Forecasts[n].icon

============================================================================
